---- MODULE Spec2Model ----
(***************************************************************************)
(* A model of wos/read.py: the encoding and format sniffers, the two       *)
(* record readers (TabDelimitedReader, PlainTextReader) and the read()     *)
(* driver.  Text is modelled character by character: a string is a         *)
(* sequence of one-character strings, a text stream is the sequence of     *)
(* raw lines (each with its terminating newline) that iterating the file   *)
(* object produces.                                                        *)
(***************************************************************************)
EXTENDS Integers, Sequences, FiniteSets, TLC

VARIABLES
    fh,            \* PlainTextReader.fh: the raw lines of the stream
    fh_pos,        \* number of lines already taken from fh
    current_line,  \* PlainTextReader.current_line
    subdelimiter,  \* PlainTextReader.subdelimiter
    pt_state,      \* "new" (not constructed), "ready", "failed" (constructor raised)
    pt_result,     \* outcome of the last constructor / next call
    pt_log,        \* outcome kinds of all next calls so far, in call order
    pt_out,        \* records returned by next so far, in call order
    pt_from,       \* lines taken from fh when the last next call was entered
    tab_fh,        \* the raw lines of the stream given to TabDelimitedReader
    tab_reader,    \* TabDelimitedReader.reader (the DictReader): [line_num, fieldnames]
    tab_row,       \* the row the DictReader returned to the last next call
    tab_result,    \* outcome of the last next call
    tab_log,       \* outcome kinds of all next calls so far, in call order
    rd_args,       \* arguments of read(): [is_seq, names, using, encoding, kwargs]
    rd_pc,         \* where the generator stands
    rd_idx,        \* index in fname of the source being read
    rd_frame,      \* arguments of the read() frame that reads the current source
    rd_enc,        \* that frame's local encoding
    rd_cls,        \* that frame's local reader_class
    rd_reader,     \* that frame's local reader
    rd_handles,    \* stream handles open now: [src, mode, encoding]
    rd_calls,      \* sniffer, open and constructor calls made so far
    rd_yielded,    \* records yielded so far: [src, record]
    rd_error,      \* the exception that left the generator, or "none"
    sn_fh,         \* the stream handed to a sniffer: [mode, data, pos]
    sn_result,     \* what the sniffer returned or raised
    byteorder      \* sys.byteorder of the platform: decides codecs.BOM_UTF16

pt_vars == <<fh, fh_pos, current_line, subdelimiter, pt_state, pt_result, pt_log,
             pt_out, pt_from>>

tab_vars == <<tab_fh, tab_reader, tab_row, tab_result, tab_log>>

rd_vars == <<rd_args, rd_pc, rd_idx, rd_frame, rd_enc, rd_cls, rd_reader, rd_handles,
             rd_calls, rd_yielded, rd_error>>

sn_vars == <<sn_fh, sn_result>>

vars == <<pt_vars, tab_vars, sn_vars, rd_vars, byteorder>>

----------------------------------------------------------------------------
(* Bounds *)

\* longest record body (lines after the header) of a generated plain-text file
MaxBody == 4
\* number of next calls made on one reader
MaxCalls == 4
\* most data rows of a generated tab-delimited file
MaxRows == 3
\* most sources in the sequence given to read()
MaxSources == 2
\* length of the freely chosen head of a sniffed stream
MaxHead == 3
\* longest run of filler characters after the head of a sniffed stream
MaxPad == 10

----------------------------------------------------------------------------
(* Strings: str methods used by read.py *)

NL == "\n"
TAB == "\t"
SP == " "

\* characters str.split(None) / str.strip() treat as whitespace
IsSpace(c) == c \in {SP, TAB, NL}

Min(a, b) == IF a < b THEN a ELSE b

SetMin(S) == CHOOSE x \in S : \A y \in S : x <= y
SetMax(S) == CHOOSE x \in S : \A y \in S : x >= y

\* s.startswith(p)
startswith(s, p) == /\ Len(s) >= Len(p)
                    /\ SubSeq(s, 1, Len(p)) = p

\* s.rstrip("\n")
RECURSIVE rstrip_nl(_)
rstrip_nl(s) ==
    IF s # <<>> /\ s[Len(s)] = NL THEN rstrip_nl(SubSeq(s, 1, Len(s) - 1)) ELSE s

RECURSIVE lstrip(_)
lstrip(s) == IF s # <<>> /\ IsSpace(s[1]) THEN lstrip(Tail(s)) ELSE s

RECURSIVE rstrip(_)
rstrip(s) ==
    IF s # <<>> /\ IsSpace(s[Len(s)]) THEN rstrip(SubSeq(s, 1, Len(s) - 1)) ELSE s

\* s.strip()
strip(s) == rstrip(lstrip(s))

\* length of the leading run of non-whitespace characters of s
RECURSIVE token_len(_)
token_len(s) == IF s = <<>> \/ IsSpace(s[1]) THEN 0 ELSE 1 + token_len(Tail(s))

\* s.split(None, maxsplit): maxsplit < 0 means no limit
RECURSIVE split_ws(_, _)
split_ws(s, maxsplit) ==
    LET t == lstrip(s) IN
    IF t = <<>> THEN <<>>
    ELSE IF maxsplit = 0 THEN <<t>>
    ELSE LET n == token_len(t) IN
         <<SubSeq(t, 1, n)>> \o split_ws(SubSeq(t, n + 1, Len(t)), maxsplit - 1)

\* s.split()
split(s) == split_ws(s, -1)

\* sep.join(values)
RECURSIVE join(_, _)
join(sep, values) ==
    IF values = <<>> THEN <<>>
    ELSE IF Len(values) = 1 THEN values[1]
    ELSE values[1] \o sep \o join(sep, Tail(values))

----------------------------------------------------------------------------
(* Outcomes of a call: a returned value or the exception that left it *)

EmptyRecord == [k \in {} |-> <<>>]

\* kind: "ok" | "record" | "StopIteration" | "ReadError" | "ValueError" | "KeyError";
\* record: the dict returned (kind "record"); msg, line: ReadError's message and
\* the line number formatted into it (0 when the message has none)
Outcome(kind, record, msg, line) ==
    [kind |-> kind, record |-> record, msg |-> msg, line |-> line]

NoOutcome == Outcome("none", EmptyRecord, "", 0)

----------------------------------------------------------------------------
(* wos.tags.has_item_per_line: field code -> one item per line? *)

AU == <<"A", "U">>
TI == <<"T", "I">>

has_item_per_line == (AU :> TRUE) @@ (TI :> FALSE)

----------------------------------------------------------------------------
(* PlainTextReader *)

\* the version string __init__ expects
version == <<"1", ".", "0">>

\* default of the subdelimiter parameter
DefaultSubdelimiter == <<";", " ">>

\* next_line with the counter left alone on an empty line
next_line_skip_empty(f, pos, cl) ==
    IF pos < Len(f)
    THEN [eof |-> FALSE, line |-> rstrip_nl(f[pos + 1]), pos |-> pos + 1,
          cl |-> IF rstrip_nl(f[pos + 1]) = <<>> THEN cl ELSE cl + 1]
    ELSE [eof |-> TRUE, line |-> <<>>, pos |-> pos, cl |-> cl + 1]

\* a next-line that does not count the read attempt that meets end of stream
next_line_uncounted_eof(f, pos, cl) ==
    IF pos < Len(f)
    THEN [eof |-> FALSE, line |-> rstrip_nl(f[pos + 1]), pos |-> pos + 1, cl |-> cl + 1]
    ELSE [eof |-> TRUE, line |-> <<>>, pos |-> pos, cl |-> cl]

\* _next_line on stream f with pos lines taken and line counter cl
next_line(f, pos, cl) ==
    IF pos < Len(f)
    THEN [eof |-> FALSE, line |-> rstrip_nl(f[pos + 1]), pos |-> pos + 1, cl |-> cl + 1]
    ELSE [eof |-> TRUE, line |-> <<>>, pos |-> pos, cl |-> cl + 1]

\* a next-nonempty-line that returns the next line, empty or not
next_nonempty_line_no_skip(f, pos, cl) == next_line(f, pos, cl)

\* _next_nonempty_line: eof stands for the StopIteration of next(self.fh)
RECURSIVE next_nonempty_line(_, _, _)
next_nonempty_line(f, pos, cl) ==
    LET r == next_line(f, pos, cl) IN
    IF r.eof \/ r.line # <<>> THEN r ELSE next_nonempty_line(f, r.pos, r.cl)

\* next_record_lines without the try/except: the stream's StopIteration escapes
RECURSIVE next_record_lines_no_except(_, _, _, _)
next_record_lines_no_except(f, pos, cl, lines) ==
    LET r == next_nonempty_line(f, pos, cl) IN
    IF r.eof
    THEN [kind |-> "StopIteration", msg |-> "", line |-> 0,
          lines |-> lines, pos |-> r.pos, cl |-> r.cl]
    ELSE IF startswith(r.line, <<"E", "F">>)
    THEN IF lines # <<>>
         THEN [kind |-> "ReadError",
               msg |-> "Encountered unexpected end of file marker EF on line",
               line |-> r.cl, lines |-> lines, pos |-> r.pos, cl |-> r.cl]
         ELSE [kind |-> "StopIteration", msg |-> "", line |-> 0,
               lines |-> lines, pos |-> r.pos, cl |-> r.cl]
    ELSE IF startswith(r.line, <<"E", "R">>)
    THEN [kind |-> "lines", msg |-> "", line |-> 0,
          lines |-> lines, pos |-> r.pos, cl |-> r.cl]
    ELSE next_record_lines_no_except(f, r.pos, r.cl, Append(lines, r.line))

\* _next_record_lines, entered with the lines gathered so far
RECURSIVE next_record_lines(_, _, _, _)
next_record_lines(f, pos, cl, lines) ==
    LET r == next_nonempty_line(f, pos, cl) IN
    IF r.eof
    THEN [kind |-> "ReadError", msg |-> "Encountered EOF before 'EF' marker",
          line |-> 0, lines |-> lines, pos |-> r.pos, cl |-> r.cl]
    ELSE IF startswith(r.line, <<"E", "F">>)
    THEN IF lines # <<>>
         THEN [kind |-> "ReadError",
               msg |-> "Encountered unexpected end of file marker EF on line",
               line |-> r.cl, lines |-> lines, pos |-> r.pos, cl |-> r.cl]
         ELSE [kind |-> "StopIteration", msg |-> "", line |-> 0,
               lines |-> lines, pos |-> r.pos, cl |-> r.cl]
    ELSE IF startswith(r.line, <<"E", "R">>)
    THEN [kind |-> "lines", msg |-> "", line |-> 0,
          lines |-> lines, pos |-> r.pos, cl |-> r.cl]
    ELSE next_record_lines(f, r.pos, r.cl, Append(lines, r.line))

\* format_values joining every field with one space
format_values_space(subdelim, heading, values, miss) ==
    IF heading \in DOMAIN has_item_per_line \/ miss # "KeyError"
    THEN [kind |-> "ok", value |-> join(<<SP>>, values)]
    ELSE [kind |-> "KeyError", value |-> <<>>]

\* _format_values: the lookup of a heading the table does not hold either raises
\* KeyError (a plain dict) or yields False (a defaulting dict): miss says which
format_values(subdelim, heading, values, miss) ==
    IF heading \in DOMAIN has_item_per_line
    THEN IF has_item_per_line[heading]
         THEN [kind |-> "ok", value |-> join(subdelim, values)]
         ELSE [kind |-> "ok", value |-> join(<<SP>>, values)]
    ELSE IF miss = "KeyError"
    THEN [kind |-> "KeyError", value |-> <<>>]
    ELSE [kind |-> "ok", value |-> join(<<SP>>, values)]

\* record[heading] = value
SetItem(record, heading, value) ==
    [k \in DOMAIN record \cup {heading} |-> IF k = heading THEN value ELSE record[k]]

\* the parsing loop of next over lines[i..], and the final "Add last field"
RECURSIVE parse_record(_, _, _, _, _, _, _)
parse_record(subdelim, lines, i, record, values, heading, miss) ==
    IF i > Len(lines)
    THEN LET fv == format_values(subdelim, heading, values, miss) IN
         IF fv.kind = "ok"
         THEN Outcome("record", SetItem(record, heading, fv.value), "", 0)
         ELSE Outcome(fv.kind, EmptyRecord, "", 0)
    ELSE LET line == lines[i] IN
         IF ~startswith(line, <<SP, SP>>)
         THEN LET fv == IF heading # <<>>
                        THEN format_values(subdelim, heading, values, miss)
                        ELSE [kind |-> "skip", value |-> <<>>]
                  rec2 == IF fv.kind = "ok" THEN SetItem(record, heading, fv.value)
                          ELSE record
                  parts == split_ws(line, 1)
              IN IF fv.kind \notin {"ok", "skip"}
                 THEN Outcome(fv.kind, EmptyRecord, "", 0)
                 ELSE IF Len(parts) # 2
                 THEN Outcome("ValueError", EmptyRecord, "", 0)
                 ELSE parse_record(subdelim, lines, i + 1, rec2, <<parts[2]>>,
                                   parts[1], miss)
         ELSE parse_record(subdelim, lines, i + 1, record,
                           Append(values, strip(line)), heading, miss)

\* PlainTextReader.__init__ on stream f: the outcome and the reader's fields after it
PlainTextReader_init_result(f) ==
    LET l1 == next_nonempty_line(f, 0, 0) IN
    IF l1.eof
    THEN [out |-> Outcome("StopIteration", EmptyRecord, "", 0), pos |-> l1.pos, cl |-> l1.cl]
    ELSE IF ~startswith(l1.line, <<"F", "N">>)
    THEN [out |-> Outcome("ReadError", EmptyRecord, "Unknown file format", 0),
          pos |-> l1.pos, cl |-> l1.cl]
    ELSE LET l2 == next_nonempty_line(f, l1.pos, l1.cl)
             parts == split(l2.line)
         IN IF l2.eof
            THEN [out |-> Outcome("StopIteration", EmptyRecord, "", 0),
                  pos |-> l2.pos, cl |-> l2.cl]
            ELSE IF Len(parts) # 2
            THEN [out |-> Outcome("ValueError", EmptyRecord, "", 0),
                  pos |-> l2.pos, cl |-> l2.cl]
            ELSE IF parts[1] # <<"V", "R">> \/ parts[2] # version
            THEN [out |-> Outcome("ReadError", EmptyRecord, "Unknown version", 0),
                  pos |-> l2.pos, cl |-> l2.cl]
            ELSE [out |-> Outcome("ok", EmptyRecord, "", 0), pos |-> l2.pos, cl |-> l2.cl]

\* a next that takes one more line from the stream after the record's ER line
PlainTextReader_next_result_lookahead(f, pos, cl, subdelim, miss) ==
    LET g == next_record_lines(f, pos, cl, <<>>)
        ahead == IF g.kind = "lines" THEN next_line(f, g.pos, g.cl)
                 ELSE [eof |-> TRUE, line |-> <<>>, pos |-> g.pos, cl |-> g.cl]
    IN [out |-> IF g.kind = "lines"
                THEN parse_record(subdelim, g.lines, 1, EmptyRecord, <<>>, <<>>, miss)
                ELSE Outcome(g.kind, EmptyRecord, g.msg, g.line),
        lines |-> g.lines, pos |-> ahead.pos, cl |-> ahead.cl]

\* PlainTextReader.next: the outcome and the reader's fields after it
PlainTextReader_next_result(f, pos, cl, subdelim, miss) ==
    LET g == next_record_lines(f, pos, cl, <<>>) IN
    [out |-> IF g.kind = "lines"
             THEN parse_record(subdelim, g.lines, 1, EmptyRecord, <<>>, <<>>, miss)
             ELSE Outcome(g.kind, EmptyRecord, g.msg, g.line),
     lines |-> g.lines, pos |-> g.pos, cl |-> g.cl]

----------------------------------------------------------------------------
(* Components at rest: the values of their variables while another component *)
(* is exercised on its own                                                   *)

PTIdle ==
    /\ fh = <<>>
    /\ fh_pos = 0
    /\ current_line = 0
    /\ subdelimiter = DefaultSubdelimiter
    /\ pt_state = "new"
    /\ pt_result = NoOutcome
    /\ pt_log = <<>>
    /\ pt_out = <<>>
    /\ pt_from = 0

TabIdle ==
    /\ tab_fh = <<>>
    /\ tab_reader = [line_num |-> 0, fieldnames |-> <<>>]
    /\ tab_row = EmptyRecord
    /\ tab_result = NoOutcome
    /\ tab_log = <<>>

SniffIdle ==
    /\ sn_fh = [mode |-> "rb", data |-> <<>>, pos |-> 0]
    /\ sn_result = "idle"

ReadIdle ==
    /\ rd_args = [is_seq |-> TRUE, names |-> <<>>, using |-> "None", encoding |-> "None",
                  kwargs |-> [given |-> FALSE, subdelimiter |-> <<>>]]
    /\ rd_pc = "idle"
    /\ rd_idx = 0
    /\ rd_frame = [using |-> "None", encoding |-> "None",
                   kwargs |-> [given |-> FALSE, subdelimiter |-> <<>>]]
    /\ rd_enc = "None"
    /\ rd_cls = "None"
    /\ rd_reader = [cls |-> "None", decoded |-> "none", fh |-> <<>>, pos |-> 0, cl |-> 0,
                    subdelimiter |-> <<>>, dr |-> [line_num |-> 0, fieldnames |-> <<>>]]
    /\ rd_handles = {}
    /\ rd_calls = <<>>
    /\ rd_yielded = <<>>
    /\ rd_error = "none"

----------------------------------------------------------------------------
(* Plain-text input files *)

\* a line of text as the file object yields it
Raw(line) == line \o <<NL>>

L_FN == <<"F", "N", " ", "X">>
L_VR == <<"V", "R", " ", "1", ".", "0">>
L_VR2 == <<"V", "R", " ", "2", ".", "0">>
L_VR_only == <<"V", "R">>
L_XX == <<"X", "X", " ", "1", ".", "0">>
L_AU == <<"A", "U", " ", "J", "o", "h", "n", " ", "D", "o", "e">>
L_cont == <<" ", " ", "J", "a", "n", "e", " ", "R", "o", "e">>
L_TI == <<"T", "I", " ", "A", "b">>
L_AU_only == <<"A", "U">>
L_ER == <<"E", "R">>
L_EF == <<"E", "F">>
L_empty == <<>>

\* all sequences over S of length at most n
RECURSIVE SeqsUpTo(_, _)
SeqsUpTo(S, n) ==
    IF n = 0 THEN {<<>>}
    ELSE LET shorter == SeqsUpTo(S, n - 1) IN
         shorter \cup {Append(q, x) : q \in {r \in shorter : Len(r) = n - 1}, x \in S}

RawLines(ls) == [i \in 1..Len(ls) |-> Raw(ls[i])]

\* the lines a record body is drawn from
BodyLines == {L_AU, L_cont, L_TI, L_AU_only, L_ER, L_EF, L_empty}

\* headers the constructor accepts
GoodHeaders == {<<L_FN, L_VR>>, <<L_empty, L_FN, L_empty, L_VR>>}

\* headers the constructor does not accept
BadHeaders == {<<>>, <<L_empty>>, <<L_FN>>, <<L_FN, L_empty>>, <<L_VR, L_FN>>,
               <<L_FN, L_VR2>>, <<L_FN, L_XX>>, <<L_FN, L_VR_only>>, <<L_FN, L_AU>>}

PlainTextFiles ==
    {RawLines(h \o b) : h \in GoodHeaders, b \in SeqsUpTo(BodyLines, MaxBody)}
    \cup {RawLines(h \o b) : h \in BadHeaders, b \in SeqsUpTo({L_AU, L_ER, L_EF}, 1)}

Subdelimiters == {DefaultSubdelimiter, <<"|">>}

----------------------------------------------------------------------------
(* The sniffers.  A byte is written as a one-character string when it is    *)
(* ASCII and as "xHH" otherwise.                                            *)

\* default of sniff_file's length parameter
SniffLength == 10
\* default of sniff_file's offset parameter
SniffOffset == 0

xFF == "xFF"
xFE == "xFE"
xEF == "xEF"
xBB == "xBB"
xBF == "xBF"
x00 == "x00"

BOM_UTF16_LE == <<xFF, xFE>>
BOM_UTF16_BE == <<xFE, xFF>>
BOM_UTF8 == <<xEF, xBB, xBF>>

\* codecs.BOM_UTF16: the mark in the byte order of the platform
BOM_UTF16(order) == IF order = "little" THEN BOM_UTF16_LE ELSE BOM_UTF16_BE

\* a sniff_file that leaves the stream where the read ended
sniff_file_no_seek(data, pos) ==
    [sniff |-> SubSeq(data, pos + 1, Min(Len(data), pos + SniffLength)),
     pos |-> Min(Len(data), pos + SniffLength)]

\* sniff_file(fh): fh.read(length) from the current position, then fh.seek(offset)
sniff_file(data, pos) ==
    [sniff |-> SubSeq(data, pos + 1, Min(Len(data), pos + SniffLength)),
     pos |-> SniffOffset]

\* sniff_encoding(fh) on a platform of the given byte order
sniff_encoding(data, pos, order) ==
    LET s == sniff_file(data, pos) IN
    [encoding |-> IF startswith(s.sniff, BOM_UTF16(order)) THEN "utf-16"
                  ELSE IF startswith(s.sniff, BOM_UTF8) THEN "utf-8-sig"
                  ELSE "utf-8",
     pos |-> s.pos]

\* "\t" in sniff
HasTab(s) == \E i \in 1..Len(s) : s[i] = TAB

\* get_reader testing for the tab before the FN marker
get_reader_tab_first(data, pos) ==
    LET s == sniff_file(data, pos) IN
    [reader |-> IF HasTab(s.sniff) THEN "TabDelimitedReader"
                ELSE IF startswith(s.sniff, <<"F", "N", SP>>) THEN "PlainTextReader"
                ELSE "ReadError",
     pos |-> s.pos]

\* get_reader(fh): the reader class, or ReadError
get_reader(data, pos) ==
    LET s == sniff_file(data, pos) IN
    [reader |-> IF startswith(s.sniff, <<"F", "N", SP>>) THEN "PlainTextReader"
                ELSE IF HasTab(s.sniff) THEN "TabDelimitedReader"
                ELSE "ReadError",
     pos |-> s.pos]

\* n filler characters
Pad(n) == [i \in 1..n |-> "x"]

\* streams handed to get_reader: a free head, filler, possibly a late tab
TextInputs ==
    {h \o Pad(n) \o t : h \in SeqsUpTo({"F", "N", SP, TAB, "x"}, MaxHead),
                        n \in 0..MaxPad, t \in {<<>>, <<TAB>>}}

\* streams handed to sniff_encoding
BinaryInputs ==
    {h \o Pad(n) : h \in SeqsUpTo({xFF, xFE, xEF, xBB, xBF, "F"}, MaxHead),
                   n \in 0..MaxPad}

SniffInit ==
    /\ \/ sn_fh \in [mode : {"rb"}, data : BinaryInputs, pos : {0}]
       \/ sn_fh \in [mode : {"rt"}, data : TextInputs, pos : {0}]
    /\ sn_result = "none"
    /\ byteorder \in {"little", "big"}
    /\ PTIdle /\ TabIdle /\ ReadIdle

\* encoding = sniff_encoding(fh)
SniffEncoding ==
    /\ sn_fh.mode = "rb"
    /\ sn_result = "none"
    /\ LET r == sniff_encoding(sn_fh.data, sn_fh.pos, byteorder) IN
       /\ sn_result' = r.encoding
       /\ sn_fh' = [sn_fh EXCEPT !.pos = r.pos]
    /\ UNCHANGED <<pt_vars, tab_vars, rd_vars, byteorder>>

\* reader_class = get_reader(fh)
GetReader ==
    /\ sn_fh.mode = "rt"
    /\ sn_result = "none"
    /\ LET r == get_reader(sn_fh.data, sn_fh.pos) IN
       /\ sn_result' = r.reader
       /\ sn_fh' = [sn_fh EXCEPT !.pos = r.pos]
    /\ UNCHANGED <<pt_vars, tab_vars, rd_vars, byteorder>>

----------------------------------------------------------------------------
(* TabDelimitedReader, and the csv.DictReader it wraps *)

\* the key None, which is no string
NoneKey == <<"None">>

\* dict values: a string, None (DictReader's restval) or a list of strings
\* (the surplus columns DictReader stores under restkey)
StrValue(s) == [t |-> "str", v |-> <<s>>]
NoneValue == [t |-> "None", v |-> <<>>]
ListValue(l) == [t |-> "list", v |-> l]

\* line.split("\t") of a line without its newline: what csv.reader makes of an
\* unquoted tab-delimited line
RECURSIVE split_tab(_)
split_tab(line) ==
    IF ~HasTab(line) THEN <<line>>
    ELSE LET i == CHOOSE j \in 1..Len(line) :
                     line[j] = TAB /\ \A k \in 1..(j - 1) : line[k] # TAB
         IN <<SubSeq(line, 1, i - 1)>> \o split_tab(SubSeq(line, i + 1, Len(line)))

\* a row of csv.reader: the empty list for a blank line
csv_row(raw) == IF rstrip_nl(raw) = <<>> THEN <<>> ELSE split_tab(rstrip_nl(raw))

\* the dict DictReader builds from fieldnames and a row
dict_row(fieldnames, row) ==
    LET lf == Len(fieldnames)
        lr == Len(row)
        zipped == {fieldnames[i] : i \in 1..Min(lf, lr)}
        last(k) == SetMax({i \in 1..Min(lf, lr) : fieldnames[i] = k})
        missing == {fieldnames[i] : i \in (lr + 1)..lf}
        rest == IF lf < lr THEN {NoneKey} ELSE {}
    IN [k \in zipped \cup missing \cup rest |->
           IF k \in rest THEN ListValue(SubSeq(row, lf + 1, lr))
           ELSE IF k \in missing THEN NoneValue
           ELSE StrValue(row[last(k)])]

\* position of the first non-blank line after line n of f, or 0
NextRowLine(f, n) ==
    LET later == {p \in (n + 1)..Len(f) : csv_row(f[p]) # <<>>} IN
    IF later = {} THEN 0 ELSE SetMin(later)

\* DictReader.__next__ on stream f: the first call takes the first line as the
\* field names, every call skips blank lines and returns the next row as a dict
DictReader_next(f, rd) ==
    LET names == IF rd.line_num = 0 /\ Len(f) >= 1 THEN csv_row(f[1]) ELSE rd.fieldnames
        start == IF rd.line_num = 0 /\ Len(f) >= 1 THEN 1 ELSE rd.line_num
        p == NextRowLine(f, start)
    IN IF p = 0
       THEN [kind |-> "StopIteration", row |-> EmptyRecord,
             rd |-> [line_num |-> Len(f), fieldnames |-> names]]
       ELSE [kind |-> "row", row |-> dict_row(names, csv_row(f[p])),
             rd |-> [line_num |-> p, fieldnames |-> names]]

\* del d[key]
DelItem(d, key) == [k \in DOMAIN d \ {key} |-> d[k]]

\* the body of next with the del statement left out
TabDelimitedReader_cleanup_no_del(record) == Outcome("record", record, "", 0)

\* the body of TabDelimitedReader.next after the row is fetched:
\* try: del record[None]; except KeyError: pass; return record
TabDelimitedReader_cleanup(record) ==
    IF NoneKey \in DOMAIN record
    THEN Outcome("record", DelItem(record, NoneKey), "", 0)
    ELSE Outcome("record", record, "", 0)

\* TabDelimitedReader.next
TabDelimitedReader_next_result(f, rd) ==
    LET d == DictReader_next(f, rd) IN
    [out |-> IF d.kind = "row" THEN TabDelimitedReader_cleanup(d.row)
             ELSE Outcome("StopIteration", EmptyRecord, "", 0),
     row |-> d.row, rd |-> d.rd]

T_AB == <<"A", TAB, "B">>
T_ABt == <<"A", TAB, "B", TAB>>
T_xy == <<"x", TAB, "y">>
T_xyt == <<"x", TAB, "y", TAB>>
T_x == <<"x">>
T_xyzt == <<"x", TAB, "y", TAB, "z", TAB>>

TabHeaders == {T_AB, T_ABt}
TabRows == {T_xy, T_xyt, T_x, T_xyzt, L_empty}

TabFiles ==
    {<<>>} \cup {RawLines(<<h>> \o b) : h \in TabHeaders, b \in SeqsUpTo(TabRows, MaxRows)}

NewDictReader == [line_num |-> 0, fieldnames |-> <<>>]

TabInit ==
    /\ tab_fh \in TabFiles
    /\ tab_reader = NewDictReader
    /\ tab_row = EmptyRecord
    /\ tab_result = NoOutcome
    /\ tab_log = <<>>
    /\ PTIdle /\ SniffIdle /\ ReadIdle
    /\ byteorder = "little"

\* reader.next() of a TabDelimitedReader
TabDelimitedReader_next ==
    /\ Len(tab_log) < MaxCalls
    /\ LET r == TabDelimitedReader_next_result(tab_fh, tab_reader) IN
       /\ tab_reader' = r.rd
       /\ tab_row' = r.row
       /\ tab_result' = r.out
       /\ tab_log' = Append(tab_log, r.out.kind)
    /\ UNCHANGED tab_fh
    /\ UNCHANGED <<pt_vars, sn_vars, rd_vars, byteorder>>

----------------------------------------------------------------------------
(* Files on disk, and open(fname, mode, encoding=...) *)

\* a file: its byte-order mark ("none", "utf-8", "utf-16-le", "utf-16-be") and
\* its text as raw lines; a file with a UTF-16 mark is UTF-16 in that byte
\* order, any other file is UTF-8
File(bom, ls) == [bom |-> bom, lines |-> RawLines(ls)]

RECURSIVE Flatten(_)
Flatten(ls) == IF ls = <<>> THEN <<>> ELSE Head(ls) \o Flatten(Tail(ls))

BOMBytes(bom) ==
    CASE bom = "utf-8" -> BOM_UTF8
      [] bom = "utf-16-le" -> BOM_UTF16_LE
      [] bom = "utf-16-be" -> BOM_UTF16_BE
      [] OTHER -> <<>>

\* the bytes of ASCII text in the file's encoding
RECURSIVE EncodeText(_, _)
EncodeText(bom, chars) ==
    IF chars = <<>> THEN <<>>
    ELSE (CASE bom = "utf-16-le" -> <<Head(chars), x00>>
            [] bom = "utf-16-be" -> <<x00, Head(chars)>>
            [] OTHER -> <<Head(chars)>>) \o EncodeText(bom, Tail(chars))

\* the content of open(fname, 'rb')
FileBytes(file) == BOMBytes(file.bom) \o EncodeText(file.bom, Flatten(file.lines))

\* U+FEFF, what plain 'utf-8' makes of a UTF-8 byte-order mark
uFEFF == "uFEFF"

\* reading open(fname, 'rt', encoding=encoding): the decoded lines, or
\* UnicodeDecodeError on the first read
Decode(file, encoding) ==
    CASE encoding = "utf-16" /\ file.bom \in {"utf-16-le", "utf-16-be"} ->
            [kind |-> "ok", lines |-> file.lines]
      [] encoding = "utf-8-sig" /\ file.bom \in {"none", "utf-8"} ->
            [kind |-> "ok", lines |-> file.lines]
      [] encoding = "utf-8" /\ file.bom = "none" ->
            [kind |-> "ok", lines |-> file.lines]
      [] encoding = "utf-8" /\ file.bom = "utf-8" ->
            [kind |-> "ok",
             lines |-> IF file.lines = <<>> THEN <<<<uFEFF>>>>
                       ELSE <<<<uFEFF>> \o Head(file.lines)>> \o Tail(file.lines)]
      [] OTHER -> [kind |-> "UnicodeDecodeError", lines |-> <<>>]

D_two == File("none", <<L_FN, L_VR, L_AU, L_cont, L_ER, L_TI, L_ER, L_EF>>)
D_sig == File("utf-8", <<L_FN, L_VR, L_TI, L_cont, L_ER, L_EF>>)
D_le == File("utf-16-le", <<L_FN, L_VR, L_AU, L_ER, L_EF>>)
D_be == File("utf-16-be", <<L_FN, L_VR, L_TI, L_ER, L_EF>>)
D_tab == File("none", <<T_AB, T_xyzt, T_x>>)
D_empty == File("none", <<>>)
D_midEF == File("none", <<L_FN, L_VR, L_AU, L_ER, L_TI, L_EF>>)
D_noEF == File("none", <<L_FN, L_VR, L_AU, L_ER>>)
D_FNonly == File("none", <<L_FN>>)
D_other == File("none", <<<<"h", "i">>>>)

\* the files read() can be pointed at
DriverFiles == {D_two, D_sig, D_le, D_be, D_tab, D_empty, D_midEF, D_noEF, D_FNonly, D_other}

----------------------------------------------------------------------------
(* read(): the generator, one action per stretch of its body *)

NoKwargs == [given |-> FALSE, subdelimiter |-> <<>>]
SubdelimiterKwargs == [given |-> TRUE, subdelimiter |-> <<"|">>]

Frame(using, encoding, kwargs) == [using |-> using, encoding |-> encoding, kwargs |-> kwargs]

\* the arguments of the recursive call read(actual_fname) made for each element
\* of a sequence of sources
InnerFrame(args) == Frame("None", "None", NoKwargs)

Call(src, op, cls, encoding, kwargs) ==
    [src |-> src, op |-> op, cls |-> cls, encoding |-> encoding, kwargs |-> kwargs]

NoReader == [cls |-> "None", decoded |-> "none", fh |-> <<>>, pos |-> 0, cl |-> 0,
             subdelimiter |-> <<>>, dr |-> NewDictReader]

SourceLists == SeqsUpTo(DriverFiles, MaxSources)

ReadArgs ==
    [is_seq : {TRUE}, names : SourceLists,
     using : {"None", "PlainTextReader", "TabDelimitedReader"},
     encoding : {"None", "utf-8", "utf-8-sig"},
     kwargs : {NoKwargs, SubdelimiterKwargs}]
    \cup
    [is_seq : {FALSE}, names : {<<f>> : f \in DriverFiles},
     using : {"None", "PlainTextReader", "TabDelimitedReader"},
     encoding : {"None", "utf-8", "utf-8-sig"},
     kwargs : {NoKwargs, SubdelimiterKwargs}]

ReadInit ==
    /\ rd_args \in ReadArgs
    /\ byteorder \in {"little", "big"}
    /\ rd_pc = "start"
    /\ rd_idx = 0
    /\ rd_frame = Frame("None", "None", NoKwargs)
    /\ rd_enc = "None"
    /\ rd_cls = "None"
    /\ rd_reader = NoReader
    /\ rd_handles = {}
    /\ rd_calls = <<>>
    /\ rd_yielded = <<>>
    /\ rd_error = "none"
    /\ PTIdle /\ TabIdle /\ SniffIdle

CurrentFile == rd_args.names[rd_idx]

\* the index of the source read after source idx
NextSourceIndex_skipping(idx) == idx + 2

NextSourceIndex(idx) == idx + 1

\* the close of the handle of the current source, as an entry of the call log
CloseCall == Call(rd_idx, "close", rd_cls, rd_enc, NoKwargs)

\* a source that ends with its handle left open
FinishSource_keep_open ==
    /\ rd_handles' = rd_handles
    /\ rd_reader' = NoReader
    /\ rd_error' = "none"
    /\ IF rd_args.is_seq /\ NextSourceIndex(rd_idx) <= Len(rd_args.names)
       THEN /\ rd_idx' = NextSourceIndex(rd_idx)
            /\ rd_pc' = "encoding"
       ELSE /\ rd_idx' = rd_idx
            /\ rd_pc' = "done"

\* the frame reading the current source has finished without an exception: the
\* with statement closes the handle, and the outer loop takes the next source
\* or the generator is exhausted
FinishSource ==
    /\ rd_handles' = {}
    /\ rd_reader' = NoReader
    /\ rd_error' = "none"
    /\ IF rd_args.is_seq /\ NextSourceIndex(rd_idx) <= Len(rd_args.names)
       THEN /\ rd_idx' = NextSourceIndex(rd_idx)
            /\ rd_pc' = "encoding"
       ELSE /\ rd_idx' = rd_idx
            /\ rd_pc' = "done"

\* an exception leaves the generator; the with statement closes the handle
Raise(kind) ==
    /\ rd_handles' = {}
    /\ rd_reader' = NoReader
    /\ rd_error' = kind
    /\ rd_pc' = "error"
    /\ rd_idx' = rd_idx

\* the first pull enters the body: lines 97-103
read_enter ==
    /\ rd_pc = "start"
    /\ IF rd_args.is_seq
       THEN /\ rd_frame' = InnerFrame(rd_args)
            /\ IF rd_args.names = <<>>
               THEN rd_pc' = "done" /\ rd_idx' = 0
               ELSE rd_pc' = "encoding" /\ rd_idx' = 1
       ELSE /\ rd_frame' = Frame(rd_args.using, rd_args.encoding, rd_args.kwargs)
            /\ rd_pc' = "encoding"
            /\ rd_idx' = 1
    /\ UNCHANGED <<rd_args, rd_enc, rd_cls, rd_reader, rd_handles, rd_calls, rd_yielded,
                   rd_error, byteorder>>
    /\ UNCHANGED <<pt_vars, tab_vars, sn_vars>>

\* lines 104-106
read_sniff_encoding ==
    /\ rd_pc = "encoding"
    /\ IF rd_frame.encoding = "None"
       THEN /\ rd_enc' = sniff_encoding(FileBytes(CurrentFile), 0, byteorder).encoding
            /\ rd_calls' = rd_calls \o
                  <<Call(rd_idx, "open", "None", "rb", NoKwargs),
                    Call(rd_idx, "sniff_encoding", "None", "None", NoKwargs),
                    Call(rd_idx, "close", "None", "rb", NoKwargs)>>
       ELSE /\ rd_enc' = rd_frame.encoding
            /\ rd_calls' = rd_calls
    /\ rd_pc' = "reader_class"
    /\ UNCHANGED <<rd_args, rd_idx, rd_frame, rd_cls, rd_reader, rd_handles, rd_yielded,
                   rd_error, byteorder>>
    /\ UNCHANGED <<pt_vars, tab_vars, sn_vars>>

\* lines 108-112
read_get_reader ==
    /\ rd_pc = "reader_class"
    /\ IF rd_frame.using = "None"
       THEN LET dec == Decode(CurrentFile, rd_enc)
                r == get_reader(Flatten(dec.lines), 0)
            IN /\ rd_calls' = rd_calls \o
                     <<Call(rd_idx, "open", "None", rd_enc, NoKwargs),
                       Call(rd_idx, "get_reader", "None", rd_enc, NoKwargs),
                       Call(rd_idx, "close", "None", rd_enc, NoKwargs)>>
               /\ IF dec.kind # "ok"
                  THEN Raise(dec.kind) /\ rd_cls' = rd_cls
                  ELSE IF r.reader = "ReadError"
                  THEN Raise("ReadError") /\ rd_cls' = rd_cls
                  ELSE /\ rd_cls' = r.reader
                       /\ rd_pc' = "construct"
                       /\ UNCHANGED <<rd_idx, rd_reader, rd_handles, rd_error>>
       ELSE /\ rd_cls' = rd_frame.using
            /\ rd_pc' = "construct"
            /\ UNCHANGED <<rd_idx, rd_reader, rd_handles, rd_error, rd_calls>>
    /\ UNCHANGED <<rd_args, rd_frame, rd_enc, rd_yielded, byteorder>>
    /\ UNCHANGED <<pt_vars, tab_vars, sn_vars>>

\* lines 114-115: the handle is opened and the reader constructed on it.  A
\* StopIteration raised by the constructor becomes RuntimeError in a generator
\* under PEP 479 and ends the generator silently before it.  An exception
\* leaves the with statement, which closes the handle.
read_construct ==
    /\ rd_pc = "construct"
    /\ LET dec == Decode(CurrentFile, rd_enc)
           sub == IF rd_frame.kwargs.given THEN rd_frame.kwargs.subdelimiter
                  ELSE DefaultSubdelimiter
           r == PlainTextReader_init_result(dec.lines)
           opened == [cls |-> rd_cls, decoded |-> dec.kind, fh |-> dec.lines,
                      pos |-> 0, cl |-> 0, subdelimiter |-> <<>>, dr |-> NewDictReader]
       IN IF rd_cls = "TabDelimitedReader"
          THEN IF rd_frame.kwargs.given
               THEN Raise("TypeError")
               ELSE /\ rd_reader' = opened
                    /\ rd_handles' = {[src |-> rd_idx, mode |-> "rt"]}
                    /\ rd_pc' = "iterate"
                    /\ UNCHANGED <<rd_idx, rd_error>>
          ELSE IF dec.kind # "ok"
          THEN Raise(dec.kind)
          ELSE IF r.out.kind = "ok"
          THEN /\ rd_reader' = [opened EXCEPT !.pos = r.pos, !.cl = r.cl,
                                              !.subdelimiter = sub]
               /\ rd_handles' = {[src |-> rd_idx, mode |-> "rt"]}
               /\ rd_pc' = "iterate"
               /\ UNCHANGED <<rd_idx, rd_error>>
          ELSE IF r.out.kind = "StopIteration"
          THEN \/ Raise("RuntimeError")
               \/ FinishSource
          ELSE Raise(r.out.kind)
    /\ rd_calls' = rd_calls \o
          <<Call(rd_idx, "open", "None", rd_enc, NoKwargs),
            Call(rd_idx, "construct", rd_cls, rd_enc, rd_frame.kwargs)>> \o
          (IF rd_handles' = {} THEN <<CloseCall>> ELSE <<>>)
    /\ UNCHANGED <<rd_args, rd_frame, rd_enc, rd_cls, rd_yielded, byteorder>>
    /\ UNCHANGED <<pt_vars, tab_vars, sn_vars>>

\* append a record of source src to the yielded sequence
Yield(yielded, src, record) == Append(yielded, [src |-> src, record |-> record])

\* lines 116-117: one turn of "for record in reader: yield record"; the
\* generator is suspended at the yield until the next pull
read_iterate ==
    /\ rd_pc \in {"iterate", "suspended"}
    /\ \E miss \in {"KeyError", "False"} :
         LET pt == PlainTextReader_next_result(rd_reader.fh, rd_reader.pos, rd_reader.cl,
                                               rd_reader.subdelimiter, miss)
             tb == TabDelimitedReader_next_result(rd_reader.fh, rd_reader.dr)
             out == IF rd_reader.cls = "PlainTextReader" THEN pt.out
                    ELSE IF rd_reader.decoded # "ok"
                    THEN Outcome(rd_reader.decoded, EmptyRecord, "", 0)
                    ELSE tb.out
         IN IF out.kind = "record"
            THEN /\ rd_yielded' = Yield(rd_yielded, rd_idx, out.record)
                 /\ rd_reader' = IF rd_reader.cls = "PlainTextReader"
                                 THEN [rd_reader EXCEPT !.pos = pt.pos, !.cl = pt.cl]
                                 ELSE [rd_reader EXCEPT !.dr = tb.rd]
                 /\ rd_pc' = "suspended"
                 /\ UNCHANGED <<rd_idx, rd_handles, rd_error>>
            ELSE IF out.kind = "StopIteration"
            THEN FinishSource /\ rd_yielded' = rd_yielded
            ELSE Raise(out.kind) /\ rd_yielded' = rd_yielded
    /\ rd_calls' = IF rd_handles' = {} THEN Append(rd_calls, CloseCall) ELSE rd_calls
    /\ UNCHANGED <<rd_args, rd_frame, rd_enc, rd_cls, byteorder>>
    /\ UNCHANGED <<pt_vars, tab_vars, sn_vars>>

\* the consumer closes the generator before its first pull or while it is
\* suspended at a yield: GeneratorExit is raised at the yield of line 117 and
\* leaves the with statement, which closes the handle.  For a sequence it is
\* raised at the yield of line 101; unwinding that frame drops the last
\* reference to the inner generator, whose finalization closes it in turn.
read_close ==
    /\ rd_pc \in {"start", "suspended"}
    /\ rd_pc' = "closed"
    /\ rd_handles' = {}
    /\ rd_reader' = NoReader
    /\ rd_calls' = IF rd_handles # {} THEN Append(rd_calls, CloseCall) ELSE rd_calls
    /\ UNCHANGED <<rd_args, rd_idx, rd_frame, rd_enc, rd_cls, rd_yielded, rd_error,
                   byteorder>>
    /\ UNCHANGED <<pt_vars, tab_vars, sn_vars>>

----------------------------------------------------------------------------
(* The PlainTextReader on one stream *)

PTInit ==
    /\ fh \in PlainTextFiles
    /\ subdelimiter \in Subdelimiters
    /\ fh_pos = 0
    /\ current_line = 0
    /\ pt_state = "new"
    /\ pt_result = NoOutcome
    /\ pt_log = <<>>
    /\ pt_out = <<>>
    /\ pt_from = 0
    /\ TabIdle /\ SniffIdle /\ ReadIdle
    /\ byteorder = "little"

\* reader = PlainTextReader(fh, subdelimiter)
PlainTextReader_init ==
    /\ pt_state = "new"
    /\ LET r == PlainTextReader_init_result(fh) IN
       /\ fh_pos' = r.pos
       /\ current_line' = r.cl
       /\ pt_result' = r.out
       /\ pt_state' = IF r.out.kind = "ok" THEN "ready" ELSE "failed"
    /\ UNCHANGED <<fh, subdelimiter, pt_log, pt_out, pt_from>>
    /\ UNCHANGED <<tab_vars, sn_vars, rd_vars, byteorder>>

\* reader.next()
PlainTextReader_next ==
    /\ pt_state = "ready"
    /\ Len(pt_log) < MaxCalls
    /\ \E miss \in {"KeyError", "False"} :
         LET r == PlainTextReader_next_result(fh, fh_pos, current_line, subdelimiter, miss) IN
         /\ fh_pos' = r.pos
         /\ pt_from' = fh_pos
         /\ current_line' = r.cl
         /\ pt_result' = r.out
         /\ pt_log' = Append(pt_log, r.out.kind)
         /\ pt_out' = IF r.out.kind = "record" THEN Append(pt_out, r.out.record) ELSE pt_out
    /\ UNCHANGED <<fh, subdelimiter, pt_state>>
    /\ UNCHANGED <<tab_vars, sn_vars, rd_vars, byteorder>>

PTNext == PlainTextReader_init \/ PlainTextReader_next

PTSpec == PTInit /\ [][PTNext]_vars

TabNext == TabDelimitedReader_next

TabSpec == TabInit /\ [][TabNext]_vars

SniffNext == SniffEncoding \/ GetReader

SniffSpec == SniffInit /\ [][SniffNext]_vars

Init == ReadInit

Next == read_enter \/ read_sniff_encoding \/ read_get_reader \/ read_construct
        \/ read_iterate \/ read_close

Spec == Init /\ [][Next]_vars

----------------------------------------------------------------------------
(* Properties of read() *)

\* the records a PlainTextReader on stream f yields from position pos on, up to
\* its first call that returns no record
RECURSIVE PlainTextRecords(_, _, _, _)
PlainTextRecords(f, pos, cl, subdelim) ==
    LET r == PlainTextReader_next_result(f, pos, cl, subdelim, "KeyError") IN
    IF r.out.kind = "record"
    THEN <<r.out.record>> \o PlainTextRecords(f, r.pos, r.cl, subdelim)
    ELSE <<>>

\* the same for a TabDelimitedReader
RECURSIVE TabRecords(_, _)
TabRecords(f, rd) ==
    LET r == TabDelimitedReader_next_result(f, rd) IN
    IF r.out.kind = "record" THEN <<r.out.record>> \o TabRecords(f, r.rd) ELSE <<>>

\* the records of one source: what read(name) yields for it before it ends
RecordsOf(file) ==
    LET enc == sniff_encoding(FileBytes(file), 0, byteorder).encoding
        dec == Decode(file, enc)
        cls == get_reader(Flatten(dec.lines), 0).reader
        ini == PlainTextReader_init_result(dec.lines)
    IN IF dec.kind # "ok" THEN <<>>
       ELSE IF cls = "TabDelimitedReader" THEN TabRecords(dec.lines, NewDictReader)
       ELSE IF cls = "PlainTextReader" /\ ini.out.kind = "ok"
       THEN PlainTextRecords(dec.lines, ini.pos, ini.cl, DefaultSubdelimiter)
       ELSE <<>>

RECURSIVE RecordsOfAll(_)
RecordsOfAll(names) ==
    IF names = <<>> THEN <<>> ELSE RecordsOf(Head(names)) \o RecordsOfAll(Tail(names))

YieldedRecords == [i \in 1..Len(rd_yielded) |-> rd_yielded[i].record]

IsPrefix(a, b) == Len(a) <= Len(b) /\ SubSeq(b, 1, Len(a)) = a

NoOverrides ==
    rd_args.using = "None" /\ rd_args.encoding = "None" /\ ~rd_args.kwargs.given

\* C5: read() over a sequence of sources yields the records of the first source
\* in its order, immediately followed by those of the next: at every moment the
\* records yielded so far are the leading part of that concatenation, and when
\* the generator is exhausted they are all of it.
C5_SourcesInOrder ==
    (rd_args.is_seq /\ NoOverrides /\ rd_pc # "idle") =>
        /\ IsPrefix(YieldedRecords, RecordsOfAll(rd_args.names))
        /\ rd_pc = "done" => YieldedRecords = RecordsOfAll(rd_args.names)
        /\ \A i \in 1..Len(rd_yielded) : \A j \in 1..Len(rd_yielded) :
              i < j => rd_yielded[i].src <= rd_yielded[j].src

\* both sources of [A, B] had records and all of them were yielded
C5_Witness ==
    /\ rd_args.is_seq
    /\ NoOverrides
    /\ rd_args.names = <<D_two, D_tab>>
    /\ rd_pc = "done"
    /\ Len(rd_yielded) = 4
    /\ rd_yielded[2].src = 1
    /\ rd_yielded[3].src = 2

\* C6 (original claim): read() applies its overrides to every source, for a
\* single source and for a sequence: with using given get_reader is never called
\* and that class is constructed, with encoding given sniff_encoding is never
\* called and the handles are opened with that encoding, and the keyword
\* configuration reaches every reader constructor unchanged.
C6_OverridesApplied ==
    \A i \in 1..Len(rd_calls) :
        LET c == rd_calls[i] IN
        /\ rd_args.using # "None" =>
              /\ c.op # "get_reader"
              /\ c.op = "construct" => c.cls = rd_args.using
        /\ rd_args.encoding # "None" =>
              /\ c.op # "sniff_encoding"
              /\ c.op = "construct" => c.encoding = rd_args.encoding
        /\ c.op = "construct" => c.kwargs = rd_args.kwargs

----------------------------------------------------------------------------
(* Properties of the PlainTextReader *)

\* the text of line p (1-based) of the stream
LineAt(p) == rstrip_nl(fh[p])

\* the 1-based positions of the non-empty lines of the stream, in order
NonEmptyPositions == {p \in 1..Len(fh) : LineAt(p) # <<>>}

IsEF(p) == startswith(LineAt(p), <<"E", "F">>)
IsER(p) == startswith(LineAt(p), <<"E", "R">>)

\* positions after from that hold an ER or EF line
MarkersAfter(from) == {p \in (from + 1)..Len(fh) : IsEF(p) \/ IsER(p)}

\* a next call has been made, and pt_result is its outcome
NextCalled == pt_log # <<>>

\* the last next call met an EF line at position p with a line already collected
MetEFMidRecord(p) ==
    /\ NextCalled
    /\ MarkersAfter(pt_from) # {}
    /\ p = SetMin(MarkersAfter(pt_from))
    /\ IsEF(p)
    /\ \E q \in (pt_from + 1)..(p - 1) : LineAt(q) # <<>>

\* the stream ended while the last next call was looking for ER or EF
EndedWhileSearching == NextCalled /\ MarkersAfter(pt_from) = {}

\* C1 (original claim): once a next call of a PlainTextReader has signalled
\* end-of-sequence (StopIteration), every later next call signals end-of-sequence
\* again: it returns no record and raises no error.
C1_ExhaustedStaysExhausted ==
    \A i \in 1..Len(pt_log) : \A j \in 1..Len(pt_log) :
        (i < j /\ pt_log[i] = "StopIteration") => pt_log[j] = "StopIteration"

\* the constructor has run on a stream whose first non-empty line starts with FN
\* and whose next non-empty line is missing or is not VR 1.0
HeaderWithoutVersion ==
    /\ pt_state # "new"
    /\ NonEmptyPositions # {}
    /\ LET p1 == SetMin(NonEmptyPositions)
           rest == NonEmptyPositions \ {p1}
       IN /\ startswith(LineAt(p1), <<"F", "N">>)
          /\ \/ rest = {}
             \/ split(LineAt(SetMin(rest))) # <<<<"V", "R">>, version>>

\* C2 (original claim): constructing a PlainTextReader on a stream whose first
\* non-empty line starts with FN but whose next non-empty line is not VR 1.0, or
\* is missing, fails in the constructor with ReadError before any record is
\* produced.
C2_MissingVersionIsReadError ==
    HeaderWithoutVersion =>
        /\ pt_state = "failed"
        /\ pt_result.kind = "ReadError"
        /\ pt_out = <<>>

\* the elements of a set of positions in increasing order
RECURSIVE Ascending(_)
Ascending(S) == IF S = {} THEN <<>> ELSE <<SetMin(S)>> \o Ascending(S \ {SetMin(S)})

\* the last next call found an ER line before any EF line
BlockEndsWithER ==
    /\ NextCalled
    /\ MarkersAfter(pt_from) # {}
    /\ IsER(SetMin(MarkersAfter(pt_from)))

\* positions of the non-empty lines of the record block the last next call read
Block == {p \in (pt_from + 1)..(SetMin(MarkersAfter(pt_from)) - 1) : LineAt(p) # <<>>}

\* line p opens a new field (it does not start with two spaces)
IsFieldLine(p) == ~startswith(LineAt(p), <<SP, SP>>)

FieldLines == {p \in Block : IsFieldLine(p)}

FieldCode(p) == split_ws(LineAt(p), 1)[1]
FirstChunk(p) == split_ws(LineAt(p), 1)[2]

\* the continuation lines of the field opened at line p
Continuations(p) ==
    {q \in Block : q > p /\ \A r \in FieldLines : ~(p < r /\ r <= q)}

\* the chunks of the field opened at line p, in line order
Chunks(p) ==
    <<FirstChunk(p)>> \o
    LET qs == Ascending(Continuations(p)) IN [i \in 1..Len(qs) |-> strip(LineAt(qs[i]))]

\* every block line is a field line "<code> <chunk>" with a classified code or a
\* continuation line, and the block starts with a field line
WellFormedBlock ==
    /\ BlockEndsWithER
    /\ Block # {}
    /\ IsFieldLine(SetMin(Block))
    /\ \A p \in FieldLines :
          /\ Len(split_ws(LineAt(p), 1)) = 2
          /\ FieldCode(p) \in DOMAIN has_item_per_line

\* the line that decides the value of code c: the last field line carrying it
DecidingLine(c) == SetMax({p \in FieldLines : FieldCode(p) = c})

ExpectedValue(c) ==
    join(IF has_item_per_line[c] THEN subdelimiter ELSE <<SP>>, Chunks(DecidingLine(c)))

ExampleFile == RawLines(<<L_FN, L_VR, L_AU, L_cont, L_ER, L_EF>>)

ExampleRecord ==
    AU :> <<"J", "o", "h", "n", " ", "D", "o", "e", ";", " ",
            "J", "a", "n", "e", " ", "R", "o", "e">>

\* C3: for a well-formed record block, next returns a record whose keys are the
\* block's field codes, each mapped to its chunks (first value chunk, then the
\* stripped continuation lines in line order) joined with the subdelimiter when
\* the code is one-item-per-line and with one space otherwise, the last field
\* included; the example file yields exactly {AU: "John Doe; Jane Roe"} and
\* then end-of-sequence.
C3_FieldsJoined ==
    /\ WellFormedBlock =>
          /\ pt_result.kind = "record"
          /\ DOMAIN pt_result.record = {FieldCode(p) : p \in FieldLines}
          /\ \A c \in DOMAIN pt_result.record : pt_result.record[c] = ExpectedValue(c)
    /\ (fh = ExampleFile /\ subdelimiter = DefaultSubdelimiter /\ NextCalled) =>
          /\ pt_out = <<ExampleRecord>>
          /\ pt_log[1] = "record"
          /\ Len(pt_log) >= 2 => pt_log[2] = "StopIteration"

\* the example file has been read to its end-of-sequence
C3_Witness ==
    /\ fh = ExampleFile
    /\ subdelimiter = DefaultSubdelimiter
    /\ pt_log = <<"record", "StopIteration">>
    /\ pt_out = <<ExampleRecord>>

\* C4: when next meets an EF line while a line is already collected for the
\* current record, it raises ReadError and the line number of the message is the
\* 1-based position of that EF line in the stream (header lines and empty lines
\* counted).
C4_EFLineNumber ==
    \A p \in 1..Len(fh) :
        MetEFMidRecord(p) =>
            /\ pt_result.kind = "ReadError"
            /\ pt_result.msg = "Encountered unexpected end of file marker EF on line"
            /\ pt_result.line = p

\* a second record block is cut short by EF after an empty line was skipped
C4_Witness ==
    /\ Len(pt_out) >= 1
    /\ \E p \in 1..Len(fh) :
          /\ MetEFMidRecord(p)
          /\ pt_result.line = p
          /\ \E q \in 1..p : LineAt(q) = <<>>

\* C10: when the stream ends while a next call is still looking for the next ER
\* or EF line, the call raises ReadError and does not signal end-of-sequence.
C10_EOFIsReadError ==
    EndedWhileSearching =>
        /\ pt_result.kind = "ReadError"
        /\ pt_result.msg = "Encountered EOF before 'EF' marker"
        /\ pt_log[Len(pt_log)] # "StopIteration"

\* the stream ended directly after the ER of a returned record, no EF present
C10_Witness ==
    /\ EndedWhileSearching
    /\ Len(pt_log) >= 2
    /\ pt_log[Len(pt_log) - 1] = "record"
    /\ fh_pos = pt_from
    /\ \A p \in 1..Len(fh) : ~IsEF(p)

----------------------------------------------------------------------------
(* Properties of the PlainTextReader: record boundaries and error kinds *)

\* position of the first EF line of the stream, Len(fh) + 1 when it has none
FirstEFPos ==
    LET efs == {p \in 1..Len(fh) : IsEF(p)} IN
    IF efs = {} THEN Len(fh) + 1 ELSE SetMin(efs)

\* the last next call met an EF line with no line collected
MetEFBetweenRecords ==
    /\ NextCalled
    /\ MarkersAfter(pt_from) # {}
    /\ IsEF(SetMin(MarkersAfter(pt_from)))
    /\ \A q \in (pt_from + 1)..(SetMin(MarkersAfter(pt_from)) - 1) : LineAt(q) = <<>>

\* one record for each ER line before the first EF line whose block is well formed
C11_RecordPerER ==
    (WellFormedBlock /\ SetMin(MarkersAfter(pt_from)) < FirstEFPos) =>
        /\ pt_result.kind = "record"
        /\ fh_pos = SetMin(MarkersAfter(pt_from))
        /\ pt_out[Len(pt_out)] = pt_result.record

\* end-of-sequence exactly when EF is read with no line collected
C11_CleanEndAtEF ==
    NextCalled => (pt_result.kind = "StopIteration" <=> MetEFBetweenRecords)

\* C11 (original claim): a PlainTextReader on a file with a valid header yields,
\* in file order, one record per ER line before the first EF line, signals
\* end-of-sequence exactly when an EF line is read with no line collected, and
\* never yields a record built from lines after the first EF line (stated for
\* the records of well-formed blocks, whose outcome the code alone decides).
C11_RecordsUpToFirstEF ==
    /\ C11_RecordPerER
    /\ C11_CleanEndAtEF
    /\ (WellFormedBlock /\ pt_result.kind = "record") => fh_pos < FirstEFPos

\* the block the last next call read holds a field line that is a bare field
\* code (no value chunk after it)
BlockHasBareCode ==
    /\ BlockEndsWithER
    /\ \E p \in FieldLines : Len(split_ws(LineAt(p), 1)) # 2

\* the block the last next call read starts with a continuation line
BlockStartsWithContinuation ==
    /\ BlockEndsWithER
    /\ Block # {}
    /\ ~IsFieldLine(SetMin(Block))

\* C12 (original claim): every grammar violation met by next while reading a
\* record surfaces as ReadError and as no other error kind; in particular a
\* field line that is a bare field code, and a record block that starts with a
\* continuation line, make next raise ReadError.
C12_GrammarViolationIsReadError ==
    /\ BlockHasBareCode => pt_result.kind = "ReadError"
    /\ BlockStartsWithContinuation => pt_result.kind = "ReadError"

\* stream f with its empty lines removed
RECURSIVE NoEmpty(_)
NoEmpty(f) ==
    IF f = <<>> THEN <<>>
    ELSE IF rstrip_nl(Head(f)) = <<>> THEN NoEmpty(Tail(f))
    ELSE <<Head(f)>> \o NoEmpty(Tail(f))

\* the position in NoEmpty(fh) that corresponds to pos lines taken from fh
MapPos(pos) == Len(NoEmpty(SubSeq(fh, 1, pos)))

\* the stream holds empty lines
HasEmptyLines == \E p \in 1..Len(fh) : LineAt(p) = <<>>

\* C13: reading a plain-text file gives the same outcome as reading the file
\* with all its empty lines removed: the constructor succeeds or fails the same
\* way, and every next call, made where the previous call stopped, has the
\* same outcome (record with the same field values, end-of-sequence or error)
\* and stops at the corresponding line.
C13_EmptyLinesIgnored ==
    /\ pt_state # "new" =>
          LET r == PlainTextReader_init_result(NoEmpty(fh)) IN
          /\ pt_state = "ready" <=> r.out.kind = "ok"
          /\ ~NextCalled =>
                /\ pt_result.kind = r.out.kind
                /\ pt_result.msg = r.out.msg
                /\ MapPos(fh_pos) = r.pos
    /\ NextCalled =>
          \E miss \in {"KeyError", "False"} :
              LET n == PlainTextReader_next_result(NoEmpty(fh), MapPos(pt_from), 0,
                                                   subdelimiter, miss) IN
              /\ pt_result.kind = n.out.kind
              /\ pt_result.record = n.out.record
              /\ pt_result.msg = n.out.msg
              /\ MapPos(fh_pos) = n.pos

\* a record has been read whose continuation line is separated from its field
\* line by an empty line, in a file with empty lines in its header too
C13_Witness ==
    /\ pt_result.kind = "record"
    /\ pt_from = 4
    /\ Len(fh) >= 8
    /\ LineAt(1) = <<>>
    /\ LineAt(5) = L_AU /\ LineAt(6) = <<>> /\ LineAt(7) = L_cont /\ IsER(8)
    /\ pt_result.record = AU :> ExpectedValue(AU)
    /\ Len(ExpectedValue(AU)) > Len(L_AU)

\* the lines next gathered for the record of its last call
GatheredLines ==
    PlainTextReader_next_result(fh, pt_from, 0, subdelimiter, "False").lines

\* the non-empty lines of the block the last next call read, in line order
BlockLines ==
    LET ps == Ascending(Block) IN [i \in 1..Len(ps) |-> LineAt(ps[i])]

\* C16: when next returns a record, the lines it has taken from the stream are
\* exactly the lines up to and including the ER line that ends the record (no
\* line of the following record is read), and the lines it gathered are the
\* lines of that one record.
C16_NoLookahead ==
    (NextCalled /\ pt_result.kind = "record") =>
        /\ MarkersAfter(pt_from) # {}
        /\ fh_pos = SetMin(MarkersAfter(pt_from))
        /\ IsER(fh_pos)
        /\ GatheredLines = BlockLines

\* a record has been returned while the lines of a following record are still
\* in the stream
C16_Witness ==
    /\ pt_log = <<"record">>
    /\ pt_result.kind = "record"
    /\ Block # {}
    /\ fh_pos + 2 <= Len(fh)
    /\ LineAt(fh_pos + 1) = L_TI
    /\ IsER(fh_pos + 2)

\* the last call (constructor or next) met the end of the stream
HitEndOfStream ==
    \/ pt_state = "failed" /\ pt_result.kind = "StopIteration"
    \/ pt_result.msg = "Encountered EOF before 'EF' marker"

\* the counter is 0 in a new reader, is never below the number of lines taken,
\* and equals it while lines are left in the stream
C18_CounterState ==
    /\ pt_state = "new" => current_line = 0
    /\ current_line >= fh_pos
    /\ fh_pos < Len(fh) => current_line = fh_pos

\* a call adds to the counter one for each line it takes and one more when it
\* meets the end of the stream
C18_CounterStep ==
    /\ current_line' >= current_line
    /\ current_line' - current_line =
          (fh_pos' - fh_pos) + (IF HitEndOfStream' THEN 1 ELSE 0)

\* C18: the line counter of a PlainTextReader starts at 0, never decreases,
\* grows by exactly one for each line read attempt on the stream (the attempt
\* that meets the end of the stream included) and is not reset between
\* records: while no call has met the end of the stream it equals the number
\* of lines taken from the stream.
C18_LineCounter == [](C18_CounterState) /\ [][C18_CounterStep]_vars

\* two records have been read and the counter stands at the second ER line
C18_Witness ==
    /\ pt_log = <<"record", "record">>
    /\ fh_pos >= 6
    /\ IsER(fh_pos)
    /\ current_line = fh_pos

----------------------------------------------------------------------------
(* Properties of the sniffers and of the TabDelimitedReader *)

\* C7 (original claim): for every input that begins with a UTF-16 byte-order
\* mark, of either byte order, sniff_encoding returns 'utf-16' and leaves the
\* stream at offset 0.
C7_UTF16MarkDetected ==
    (/\ sn_fh.mode = "rb"
     /\ sn_result \notin {"none", "idle"}
     /\ \/ startswith(sn_fh.data, BOM_UTF16_LE)
        \/ startswith(sn_fh.data, BOM_UTF16_BE)) =>
        /\ sn_result = "utf-16"
        /\ sn_fh.pos = 0

\* the first SniffLength characters of the stream hold a tab
TabInPrefix == \E i \in 1..Min(SniffLength, Len(sn_fh.data)) : sn_fh.data[i] = TAB

StartsWithFN == startswith(sn_fh.data, <<"F", "N", SP>>)

\* C8: get_reader selects PlainTextReader when the stream starts with "FN "
\* (a tab in the prefix notwithstanding), TabDelimitedReader when it does not
\* but its first 10 characters hold a tab, and raises ReadError otherwise, the
\* empty stream included.
C8_ReaderSelection ==
    (sn_fh.mode = "rt" /\ sn_result \notin {"none", "idle"}) =>
        /\ StartsWithFN => sn_result = "PlainTextReader"
        /\ (~StartsWithFN /\ TabInPrefix) => sn_result = "TabDelimitedReader"
        /\ (~StartsWithFN /\ ~TabInPrefix) => sn_result = "ReadError"
        /\ sn_fh.data = <<>> => sn_result = "ReadError"

\* a stream starting with "FN " whose prefix also holds a tab went to the
\* PlainTextReader
C8_Witness ==
    /\ sn_fh.mode = "rt"
    /\ StartsWithFN
    /\ TabInPrefix
    /\ sn_result = "PlainTextReader"

\* C9: a record returned by TabDelimitedReader.next has no None key: the ghost
\* column of a trailing tab is deleted, a row without it is returned without
\* failure, and every other key and value of the row is unchanged.
C9_NoNoneKey ==
    (tab_log # <<>> /\ tab_log[Len(tab_log)] # "StopIteration") =>
        /\ tab_result.kind = "record"
        /\ NoneKey \notin DOMAIN tab_result.record
        /\ DOMAIN tab_result.record = DOMAIN tab_row \ {NoneKey}
        /\ \A k \in DOMAIN tab_result.record : tab_result.record[k] = tab_row[k]

\* a row with the ghost column was returned without it, after a row that
\* had none
C9_Witness ==
    /\ Len(tab_log) >= 2
    /\ tab_result.kind = "record"
    /\ NoneKey \in DOMAIN tab_row
    /\ NoneKey \notin DOMAIN tab_result.record
    /\ DOMAIN tab_result.record # {}

\* a sniffer has run on the stream
Sniffed == sn_result \notin {"none", "idle"}

\* after a sniffer the stream stands at offset 0, and the empty binary stream is
\* guessed to be 'utf-8'
C17_PositionRestored ==
    Sniffed =>
        /\ sn_fh.pos = 0
        /\ (sn_fh.mode = "rb" /\ sn_fh.data = <<>>) => sn_result = "utf-8"

\* a sniffer changes neither the content nor the mode of the stream
C17_ContentKept == sn_fh'.data = sn_fh.data /\ sn_fh'.mode = sn_fh.mode

\* C17: sniff_encoding and get_reader only peek: for every stream content, the
\* empty stream and streams shorter than the 10-unit prefix included, the
\* stream is unchanged and stands at position 0 after the call (also when
\* get_reader raises ReadError), and sniff_encoding on an empty stream returns
\* 'utf-8' without raising.
C17_PeekOnly == [](C17_PositionRestored) /\ [][C17_ContentKept]_vars

\* get_reader has raised ReadError on a non-empty stream shorter than the prefix
C17_Witness ==
    /\ sn_fh.mode = "rt"
    /\ sn_fh.data # <<>>
    /\ Len(sn_fh.data) < SniffLength
    /\ sn_result = "ReadError"
    /\ sn_fh.pos = 0

----------------------------------------------------------------------------
(* Properties of read(): stream handles and errors *)

\* the handles open after the first n entries of the call log
OpenAfter(n) ==
    Cardinality({i \in 1..n : rd_calls[i].op = "open"})
    - Cardinality({i \in 1..n : rd_calls[i].op = "close"})

\* read() has come to rest: exhausted, left by an exception, or closed
AtRest == rd_pc \in {"done", "error", "closed"}

\* C14: while read() runs, over one source or a sequence, at most one handle it
\* opened is open; a handle of a later source is opened only when every handle
\* of the sources before it is closed; and no handle is open once the record
\* sequence has ended normally, an exception has left read(), or the consumer
\* has closed the sequence early.
C14_HandlesScoped ==
    /\ \A n \in 0..Len(rd_calls) : OpenAfter(n) \in {0, 1}
    /\ Cardinality(rd_handles) = OpenAfter(Len(rd_calls))
    /\ \A h \in rd_handles : h.src = rd_idx
    /\ \A i \in 1..Len(rd_calls) :
          /\ rd_calls[i].op = "open" => OpenAfter(i - 1) = 0
          /\ \A j \in 1..Len(rd_calls) : i < j => rd_calls[i].src <= rd_calls[j].src
    /\ AtRest => rd_handles = {} /\ OpenAfter(Len(rd_calls)) = 0

\* the consumer closed a read over two sources after the second source had
\* yielded a record: both handles were opened and are closed
C14_Witness ==
    /\ rd_pc = "closed"
    /\ rd_args.is_seq
    /\ rd_idx = 2
    /\ rd_yielded # <<>>
    /\ rd_yielded[Len(rd_yielded)].src = 2
    /\ rd_handles = {}
    /\ \E i \in 1..Len(rd_calls) : rd_calls[i].op = "construct" /\ rd_calls[i].src = 1
    /\ rd_calls[Len(rd_calls)] = CloseCall

\* the kind of the first outcome of a PlainTextReader on stream f, from position
\* pos on, that is no record
RECURSIVE PlainTextEnd(_, _, _, _)
PlainTextEnd(f, pos, cl, subdelim) ==
    LET r == PlainTextReader_next_result(f, pos, cl, subdelim, "KeyError") IN
    IF r.out.kind = "record" THEN PlainTextEnd(f, r.pos, r.cl, subdelim) ELSE r.out.kind

\* the same for a TabDelimitedReader
RECURSIVE TabEnd(_, _)
TabEnd(f, rd) ==
    LET r == TabDelimitedReader_next_result(f, rd) IN
    IF r.out.kind = "record" THEN TabEnd(f, r.rd) ELSE r.out.kind

\* how reading one source ends: "none" when its reader is constructed and its
\* records end with end-of-sequence, otherwise the kind of what the sniffer,
\* the constructor or the failing next call raised
SourceError(file) ==
    LET enc == sniff_encoding(FileBytes(file), 0, byteorder).encoding
        dec == Decode(file, enc)
        cls == get_reader(Flatten(dec.lines), 0).reader
        ini == PlainTextReader_init_result(dec.lines)
        end == IF cls = "TabDelimitedReader" THEN TabEnd(dec.lines, NewDictReader)
               ELSE PlainTextEnd(dec.lines, ini.pos, ini.cl, DefaultSubdelimiter)
    IN IF dec.kind # "ok" THEN dec.kind
       ELSE IF cls = "ReadError" THEN "ReadError"
       ELSE IF cls = "PlainTextReader" /\ ini.out.kind # "ok" THEN ini.out.kind
       ELSE IF end = "StopIteration" THEN "none"
       ELSE end

\* a read, without overrides, over [A, B] where A is well formed and B fails
GoodThenBad ==
    /\ rd_args.is_seq
    /\ NoOverrides
    /\ Len(rd_args.names) = 2
    /\ SourceError(rd_args.names[1]) = "none"
    /\ SourceError(rd_args.names[2]) # "none"

\* B is not opened before every record of A was yielded
C15_BAfterA ==
    (GoodThenBad /\ \E i \in 1..Len(rd_calls) : rd_calls[i].src = 2) =>
        IsPrefix(RecordsOf(rd_args.names[1]), YieldedRecords)

\* when the error is raised, the records of A and the records of B before the
\* failure have been yielded, in that order
C15_RecordsBeforeError ==
    (GoodThenBad /\ rd_pc = "error") =>
        /\ rd_idx = 2
        /\ YieldedRecords = RecordsOf(rd_args.names[1]) \o RecordsOf(rd_args.names[2])

\* C15 (original claim): in a read over [A, B] where A is well formed and
\* opening or parsing B fails, the consumer receives every record of A, in
\* order, and the records of B before the failure, then the error is raised on
\* the pull that needs the failing part of B (the record sequence never ends
\* normally); B is not opened before A is exhausted.
C15_ErrorAfterGoodSource ==
    /\ C15_BAfterA
    /\ C15_RecordsBeforeError
    /\ GoodThenBad => rd_pc # "done"

====
